---------------------------- MODULE Spec2Model ----------------------------
(***************************************************************************)
(* Model of package bizapi (auth.go): URL-safe base64 keys, HMAC request   *)
(* signing (CreateSignature, SignUrl), structural validation               *)
(* (CheckSignedUrl), the key repository (LoadKeyRepository) and request    *)
(* authentication (KeyRepository.Authenticate).                            *)
(*                                                                         *)
(* A Go string is modelled as a sequence of bytes, each byte written as a  *)
(* one-character TLA+ string when it is printable ASCII and as "xHH"       *)
(* otherwise, so that traces stay readable and parsing is byte-exact.      *)
(* Loops over the bytes of a string are written over its positions.        *)
(***************************************************************************)
EXTENDS Integers, Sequences, FiniteSets, TLC

\* F applied to the value of v, which is computed once.
With(v, F(_)) == CHOOSE r \in {F(x) : x \in {v}} : TRUE

(***************************************************************************)
(* Bytes and strings                                                       *)
(***************************************************************************)
HexDigits == "0123456789ABCDEF"

\* Printable ASCII 35..91 and 97..126 (the other bytes are written "xHH").
AsciiLow == "#$%&'()*+,-./0123456789:;<=>?@ABCDEFGHIJKLMNOPQRSTUVWXYZ["

AsciiHigh == "abcdefghijklmnopqrstuvwxyz{|}~"

ChrTable ==
  [n \in 0..255 |->
     IF n = 9 THEN "\t"
     ELSE IF n = 10 THEN "\n"
     ELSE IF n = 13 THEN "\r"
     ELSE IF n = 32 THEN " "
     ELSE IF n = 33 THEN "!"
     ELSE IF n \in 35..91 THEN SubSeq(AsciiLow, n - 34, n - 34)
     ELSE IF n = 93 THEN "]"
     ELSE IF n = 94 THEN "^"
     ELSE IF n = 95 THEN "_"
     ELSE IF n \in 97..126 THEN SubSeq(AsciiHigh, n - 96, n - 96)
     ELSE "x" \o SubSeq(HexDigits, (n \div 16) + 1, (n \div 16) + 1)
              \o SubSeq(HexDigits, (n % 16) + 1, (n % 16) + 1)]

Char == {ChrTable[n] : n \in 0..255}

OrdTable == [c \in Char |-> CHOOSE n \in 0..255 : ChrTable[n] = c]

Chr(n) == ChrTable[n]

Ord(c) == OrdTable[c]

\* A string literal as a sequence of bytes.
Str(s) == [i \in 1..Len(s) |-> SubSeq(s, i, i)]

Bytes(s) == [i \in 1..Len(s) |-> Ord(s[i])]

\* s[n:] and s[:n] in the slice notation of Go.
Drop(s, n) == SubSeq(s, n + 1, Len(s))

Take(s, n) == SubSeq(s, 1, n)

HasPrefix(s, p) == Len(s) >= Len(p) /\ Take(s, Len(p)) = p

\* The 0-based indices at which sub occurs in s.
Occurrences(s, sub) == {i \in 0..(Len(s) - Len(sub)) : SubSeq(s, i + 1, i + Len(sub)) = sub}

\* strings.Index: the 0-based index of the first occurrence of sub, or -1.
Index(s, sub) ==
  With(Occurrences(s, sub),
       LAMBDA hits : IF hits = {} THEN -1 ELSE CHOOSE i \in hits : \A j \in hits : i <= j)

\* strings.LastIndex: the 0-based index of the last occurrence of sub, or -1.
LastIndex(s, sub) ==
  With(Occurrences(s, sub),
       LAMBDA hits : IF hits = {} THEN -1 ELSE CHOOSE i \in hits : \A j \in hits : i >= j)

Contains(s, sub) == Occurrences(s, sub) # {}

\* strings.Cut: before and after the first occurrence of sep.
Cut(s, sep) ==
  With(Index(s, sep),
       LAMBDA i : IF i = -1 THEN [before |-> s, after |-> <<>>, found |-> FALSE]
                  ELSE [before |-> Take(s, i), after |-> Drop(s, i + Len(sep)), found |-> TRUE])

\* strings.Replace(s, old, new, -1) for one-byte old and new.
ReplaceAll(s, old, new) == [i \in 1..Len(s) |-> IF s[i] = old THEN new ELSE s[i]]

\* strings.Split(s, sep) for a one-byte separator: the fields between the
\* separators, one more than there are separators.
Split(s, sep) ==
  With({i \in 1..Len(s) : s[i] = sep},
       LAMBDA at :
         LET nth(k) == IF k = 0 THEN 0
                       ELSE IF k > Cardinality(at) THEN Len(s) + 1
                       ELSE CHOOSE i \in at : Cardinality({j \in at : j < i}) = k - 1
         IN  [k \in 1..(Cardinality(at) + 1) |-> SubSeq(s, nth(k - 1) + 1, nth(k) - 1)])

(***************************************************************************)
(* net/url: percent-decoding                                               *)
(***************************************************************************)
IsHex(c) == c \in {Chr(n) : n \in (48..57) \cup (65..70) \cup (97..102)}

\* url.unhex
UnHex(c) ==
  With(Ord(c), LAMBDA n : IF n \in 48..57 THEN n - 48
                          ELSE IF n \in 97..102 THEN n - 97 + 10
                          ELSE n - 65 + 10)

\* url.unescape for the query-component mode (plusIsSpace) and for the path
\* and fragment modes: a "%" must be followed by two hex digits, "%XX" is the
\* byte XX, and "+" is a space in a query component only.  The two bytes
\* after a "%" are hex digits or the call fails, so every "%" of s begins an
\* escape.
Unescape(s, plusIsSpace) ==
  LET n == Len(s)
      bad == \E i \in 1..n : s[i] = "%" /\ (i + 2 > n \/ ~IsHex(s[i + 1]) \/ ~IsHex(s[i + 2]))
      inEscape(i) == (i > 1 /\ s[i - 1] = "%") \/ (i > 2 /\ s[i - 2] = "%")
      byte(i) == IF s[i] = "%" THEN Chr(UnHex(s[i + 1]) * 16 + UnHex(s[i + 2]))
                 ELSE IF s[i] = "+" /\ plusIsSpace THEN " "
                 ELSE s[i]
  IN  IF bad THEN [err |-> TRUE, s |-> <<>>]
      ELSE With(SelectSeq([i \in 1..n |-> i], LAMBDA i : ~inEscape(i)),
                LAMBDA kept : [err |-> FALSE, s |-> [k \in 1..Len(kept) |-> byte(kept[k])]])

\* url.QueryUnescape
QueryUnescape(s) == Unescape(s, TRUE)

\* url.PathUnescape, also what setPath and setFragment apply
PathUnescape(s) == Unescape(s, FALSE)

(***************************************************************************)
(* encoding/base64 and the URL-safe codec of auth.go                       *)
(***************************************************************************)
B64Alphabet == Str("ABCDEFGHIJKLMNOPQRSTUVWXYZabcdefghijklmnopqrstuvwxyz0123456789+/")

B64Value == [c \in {B64Alphabet[i] : i \in 1..64} |->
               (CHOOSE i \in 1..64 : B64Alphabet[i] = c) - 1]

B64Char(v) == B64Alphabet[v + 1]

IsB64(c) == c \in DOMAIN B64Value

\* base64.StdEncoding.EncodeToString: three bytes make four characters, the
\* last group is padded with "=".
StdEncode(b) ==
  LET n == Len(b)
      at(j) == IF j <= n THEN b[j] ELSE 0
      char(k) ==
        LET g == (k - 1) \div 4
            b1 == at(3 * g + 1)
            b2 == at(3 * g + 2)
            b3 == at(3 * g + 3)
        IN  CASE (k - 1) % 4 = 0 -> B64Char(b1 \div 4)
              [] (k - 1) % 4 = 1 -> B64Char((b1 % 4) * 16 + b2 \div 16)
              [] (k - 1) % 4 = 2 ->
                   IF 3 * g + 2 > n THEN "=" ELSE B64Char((b2 % 16) * 4 + b3 \div 64)
              [] (k - 1) % 4 = 3 -> IF 3 * g + 3 > n THEN "=" ELSE B64Char(b3 % 64)
  IN  [k \in 1..(4 * ((n + 2) \div 3)) |-> char(k)]

\* The decoding of base64.StdEncoding.DecodeString (not strict: the unused
\* low bits of a padded group are ignored): groups of four alphabet
\* characters, of which the last may end in "=" or "==".
StdDecodeQuanta(s) ==
  LET n == Len(s)
      valid == /\ n % 4 = 0
               /\ \A k \in 1..n :
                    \/ IsB64(s[k])
                    \/ s[k] = "=" /\ (k = n \/ (k = n - 1 /\ s[n] = "="))
      pad == IF n = 0 THEN 0 ELSE IF s[n] # "=" THEN 0 ELSE IF s[n - 1] = "=" THEN 2 ELSE 1
      v(k) == IF s[k] = "=" THEN 0 ELSE B64Value[s[k]]
      byte(j) ==
        LET g == (j - 1) \div 3
        IN  CASE (j - 1) % 3 = 0 -> v(4 * g + 1) * 4 + v(4 * g + 2) \div 16
              [] (j - 1) % 3 = 1 -> (v(4 * g + 2) % 16) * 16 + v(4 * g + 3) \div 4
              [] (j - 1) % 3 = 2 -> (v(4 * g + 3) % 4) * 64 + v(4 * g + 4)
  IN  IF ~valid THEN [err |-> TRUE, bytes |-> <<>>]
      ELSE [err |-> FALSE, bytes |-> [j \in 1..((n \div 4) * 3 - pad) |-> byte(j)]]

\* base64.StdEncoding.DecodeString: carriage returns and newlines are skipped.
StdDecode(s) ==
  With(SelectSeq(s, LAMBDA c : c \notin {"\r", "\n"}), LAMBDA t : StdDecodeQuanta(t))

EncodeUrlSafeBase64(b) ==
  With(StdEncode(b), LAMBDA encoded : ReplaceAll(ReplaceAll(encoded, "+", "-"), "/", "_"))

DecodeUrlSafeBase64(wiered) ==
  With(ReplaceAll(ReplaceAll(wiered, "-", "+"), "_", "/"),
       LAMBDA urlUnsafeWiered : StdDecode(urlUnsafeWiered))

(***************************************************************************)
(* crypto/hmac with crypto/sha1, abstracted: a deterministic keyed digest  *)
(* of DigestSize bytes over the key bytes and the message bytes.  Every    *)
(* digest byte depends on every byte of the key and of the message, and two*)
(* messages that differ in one byte have different digests.                *)
(***************************************************************************)
DigestSize == 20

\* Absorbing the bytes b[lo] .. b[hi] one by one, acc := (acc * mult + b + 1) % 256,
\* maps acc to (acc * m + v) % 256; Affine computes m and v by halving.
RECURSIVE Affine(_, _, _, _)
Affine(mult, bytes, lo0, hi0) ==
  With(<<lo0, hi0>>,
       LAMBDA r :
         IF r[1] > r[2] THEN [m |-> 1, v |-> 0]
         ELSE IF r[1] = r[2] THEN [m |-> mult % 256, v |-> (bytes[r[1]] + 1) % 256]
         ELSE With(<<Affine(mult, bytes, r[1], (r[1] + r[2]) \div 2),
                     Affine(mult, bytes, (r[1] + r[2]) \div 2 + 1, r[2])>>,
                   LAMBDA h : [m |-> (h[1].m * h[2].m) % 256,
                               v |-> (h[1].v * h[2].m + h[2].v) % 256]))

Absorb(acc, mult, bytes) ==
  With(Affine(mult, bytes, 1, Len(bytes)), LAMBDA f : (acc * f.m + f.v) % 256)

Hmac(key, msg) ==
  [i \in 1..DigestSize |->
     With(Absorb(Absorb(54 + i, 2 * i + 31, key), 2 * i + 31, msg),
          LAMBDA inner : Absorb(Absorb(92 + i, 2 * i + 31, key), 2 * i + 31, <<inner>>))]

(***************************************************************************)
(* net/url: Parse and ParseQuery                                           *)
(***************************************************************************)
IsLetter(c) == Ord(c) \in (65..90) \cup (97..122)

IsDigit(c) == Ord(c) \in 48..57

ToLower(s) == [i \in 1..Len(s) |-> IF Ord(s[i]) \in 65..90 THEN Chr(Ord(s[i]) + 32) ELSE s[i]]

\* url.stringContainsCTLByte
ContainsCTLByte(s) == \E i \in 1..Len(s) : Ord(s[i]) < 32 \/ Ord(s[i]) = 127

\* url.getScheme: the scheme ends at the first ":", and is empty when a byte
\* that no scheme holds comes first; a leading ":" is an error.
GetScheme(rawUrl) ==
  LET schemeByte(c) == IsLetter(c) \/ IsDigit(c) \/ c \in {"+", "-", "."}
      none == [err |-> FALSE, scheme |-> <<>>, rest |-> rawUrl]
  IN  IF rawUrl = <<>> THEN none
      ELSE IF ~IsLetter(rawUrl[1]) /\ schemeByte(rawUrl[1]) THEN none
      ELSE With({i \in 1..Len(rawUrl) : ~schemeByte(rawUrl[i])},
                LAMBDA stops :
                  IF stops = {} THEN none
                  ELSE With(CHOOSE k \in stops : \A j \in stops : k <= j,
                            LAMBDA i :
                              IF rawUrl[i] # ":" THEN none
                              ELSE IF i = 1 THEN [err |-> TRUE, scheme |-> <<>>, rest |-> <<>>]
                              ELSE [err |-> FALSE, scheme |-> Take(rawUrl, i - 1),
                                    rest |-> Drop(rawUrl, i)]))

\* The bytes url.shouldEscape leaves alone in a host.
HostByteOk(c) ==
  \/ IsLetter(c) \/ IsDigit(c) \/ Ord(c) >= 128
  \/ c \in {"!", "$", "&", "'", "(", ")", "*", "+", ",", ";", "=", ":", "[", "]",
            "<", ">", "x22", "-", "_", ".", "~"}

\* url.validUserinfo
UserinfoByteOk(c) ==
  \/ IsLetter(c) \/ IsDigit(c)
  \/ c \in {"-", ".", "_", ":", "~", "!", "$", "&", "'", "(", ")", "*", "+", ",",
            ";", "=", "%", "@"}

\* url.validOptionalPort on host[i:], which begins with ":".
ValidOptionalPort(port) == \A i \in 2..Len(port) : IsDigit(port[i])

\* url.parseHost for a host that is not an IP literal in brackets (no input of
\* this model holds a "[" or a "%" in its authority).
ParseHost(host) ==
  With(LastIndex(host, <<":">>),
       LAMBDA i :
         IF i # -1 /\ ~ValidOptionalPort(Drop(host, i)) THEN [err |-> TRUE, host |-> <<>>]
         ELSE IF \E k \in 1..Len(host) : ~HostByteOk(host[k]) THEN [err |-> TRUE, host |-> <<>>]
         ELSE [err |-> FALSE, host |-> host])

\* url.parseAuthority: [userinfo "@"] host
ParseAuthority(authority) ==
  With(LastIndex(authority, <<"@">>),
       LAMBDA i :
         With(ParseHost(IF i < 0 THEN authority ELSE Drop(authority, i + 1)),
              LAMBDA h :
                IF h.err THEN h
                ELSE IF i >= 0 /\ \E k \in 1..i : ~UserinfoByteOk(authority[k])
                  THEN [err |-> TRUE, host |-> <<>>]
                ELSE h))

NoUrl ==
  [Scheme |-> <<>>, Opaque |-> <<>>, Host |-> <<>>, Path |-> <<>>, RawQuery |-> <<>>,
   Fragment |-> <<>>]

\* url.parse after the scheme and the query were split off: rest is
\* [//authority][/path], or opaque when the URL has a scheme and rest does
\* not begin with "/".
ParseHierarchy(scheme, rest, rawQuery) ==
  IF ~HasPrefix(rest, <<"/">>) /\ scheme # <<>> THEN
    [err |-> FALSE,
     url |-> [NoUrl EXCEPT !.Scheme = scheme, !.Opaque = rest, !.RawQuery = rawQuery]]
  ELSE IF ~HasPrefix(rest, <<"/">>) /\ Contains(Cut(rest, <<"/">>).before, <<":">>) THEN
    [err |-> TRUE, url |-> NoUrl]
  ELSE IF HasPrefix(rest, <<"/", "/">>) THEN
    With(Cut(Drop(rest, 2), <<"/">>),
         LAMBDA a :
           With(<<ParseAuthority(a.before),
                  PathUnescape(IF a.found THEN <<"/">> \o a.after ELSE <<>>)>>,
                LAMBDA r :
                  IF r[1].err \/ r[2].err THEN [err |-> TRUE, url |-> NoUrl]
                  ELSE [err |-> FALSE,
                        url |-> [NoUrl EXCEPT !.Scheme = scheme, !.Host = r[1].host,
                                              !.Path = r[2].s, !.RawQuery = rawQuery]]))
  ELSE
    With(PathUnescape(rest),
         LAMBDA path :
           IF path.err THEN [err |-> TRUE, url |-> NoUrl]
           ELSE [err |-> FALSE,
                 url |-> [NoUrl EXCEPT !.Scheme = scheme, !.Path = path.s,
                                       !.RawQuery = rawQuery]])

\* url.parse(u, viaRequest = false) on the part before "#": the scheme, then
\* the query from the first "?" on (a single "?" that ends the URL is dropped).
ParseNoFragment(u) ==
  IF ContainsCTLByte(u) THEN [err |-> TRUE, url |-> NoUrl]
  ELSE
    With(GetScheme(u),
         LAMBDA g :
           IF g.err THEN [err |-> TRUE, url |-> NoUrl]
           ELSE IF /\ Len(g.rest) > 0
                   /\ g.rest[Len(g.rest)] = "?"
                   /\ Cardinality({i \in 1..Len(g.rest) : g.rest[i] = "?"}) = 1
             THEN ParseHierarchy(ToLower(g.scheme), Take(g.rest, Len(g.rest) - 1), <<>>)
           ELSE With(Cut(g.rest, <<"?">>),
                     LAMBDA c : ParseHierarchy(ToLower(g.scheme), c.before, c.after)))

\* url.Parse: the fragment is cut off at the first "#" and unescaped.
UrlParse(rawUrl) ==
  With(Cut(rawUrl, <<"#">>),
       LAMBDA c :
         With(<<ParseNoFragment(c.before), PathUnescape(c.after)>>,
              LAMBDA r :
                IF r[1].err THEN r[1]
                ELSE IF r[2].err THEN [err |-> TRUE, url |-> NoUrl]
                ELSE [err |-> FALSE, url |-> [r[1].url EXCEPT !.Fragment = r[2].s]]))

\* One "key=value" pair of a query: split at the first "=", both parts
\* query-unescaped; a pair with a ";" or a bad escape is an error, an empty
\* pair is skipped.
ParsePair(pair) ==
  With(Cut(pair, <<"=">>),
       LAMBDA kv :
         With(<<QueryUnescape(kv.before), QueryUnescape(kv.after)>>,
              LAMBDA r :
                IF Contains(pair, <<";">>) THEN [kind |-> "bad", key |-> <<>>, value |-> <<>>]
                ELSE IF pair = <<>> THEN [kind |-> "skip", key |-> <<>>, value |-> <<>>]
                ELSE IF r[1].err \/ r[2].err THEN [kind |-> "bad", key |-> <<>>, value |-> <<>>]
                ELSE [kind |-> "ok", key |-> r[1].s, value |-> r[2].s]))

\* url.ParseQuery: pairs are separated by "&"; m[key] = append(m[key], value)
\* for every good pair in order; a bad pair is left out and the first error
\* is returned after the whole query was read.
ParseQuery(query) ==
  With(Split(query, "&"),
       LAMBDA pairs :
         With([k \in 1..Len(pairs) |-> ParsePair(pairs[k])],
              LAMBDA parsed :
                [err |-> \E k \in 1..Len(parsed) : parsed[k].kind = "bad",
                 values |->
                   [key \in {parsed[k].key : k \in {j \in 1..Len(parsed) : parsed[j].kind = "ok"}} |->
                      With(SelectSeq(parsed, LAMBDA e : e.kind = "ok" /\ e.key = key),
                           LAMBDA hits : [k \in 1..Len(hits) |-> hits[k].value])]]))

(***************************************************************************)
(* auth.go                                                                 *)
(*                                                                         *)
(* An operation returns a record: err is "nil" or names the return         *)
(* statement that produced the error.  A nil pointer or nil map is <<>>,   *)
(* a value that is present is the one-element tuple holding it.            *)
(***************************************************************************)
kClient == Str("client")

kSignatureParam == Str("signature")

kMarker == Str("&signature=")

\* CreateSignature with its first two checks in the other order: the fault
\* that C5_RejectsUnsignable is shown to detect.
CreateSignatureSignatureFirst(requestUrl, key) ==
  With(ParseQuery(requestUrl.RawQuery),
       LAMBDA q :
         IF q.err THEN [err |-> "ParseQuery", signature |-> <<>>]
         ELSE IF kSignatureParam \in DOMAIN q.values
           THEN [err |-> "UnexpectedSignature", signature |-> <<>>]
         ELSE IF kClient \notin DOMAIN q.values
           THEN [err |-> "MissingClient", signature |-> <<>>]
         ELSE
           With(DecodeUrlSafeBase64(key),
                LAMBDA decodedKey :
                  IF decodedKey.err THEN [err |-> "DecodeUrlSafeBase64", signature |-> <<>>]
                  ELSE [err |-> "nil",
                        signature |->
                          EncodeUrlSafeBase64(
                            Hmac(decodedKey.bytes,
                                 Bytes(requestUrl.Path \o <<"?">> \o requestUrl.RawQuery)))]))

\* CreateSignature(requestUrl *url.URL, key string) (string, error)
CreateSignature(requestUrl, key) ==
  With(ParseQuery(requestUrl.RawQuery),
       LAMBDA q :
         IF q.err THEN [err |-> "ParseQuery", signature |-> <<>>]
         ELSE IF kClient \notin DOMAIN q.values
           THEN [err |-> "MissingClient", signature |-> <<>>]
         ELSE IF kSignatureParam \in DOMAIN q.values
           THEN [err |-> "UnexpectedSignature", signature |-> <<>>]
         ELSE
           With(<<requestUrl.Path \o <<"?">> \o requestUrl.RawQuery, DecodeUrlSafeBase64(key)>>,
                LAMBDA r :
                  \* r[1] is urlToSign, r[2] is decodedKey with its error
                  IF r[2].err THEN [err |-> "DecodeUrlSafeBase64", signature |-> <<>>]
                  ELSE With(Hmac(r[2].bytes, Bytes(r[1])),
                            LAMBDA signature :
                              [err |-> "nil", signature |-> EncodeUrlSafeBase64(signature)])))

\* CheckSignedUrl(rawUrl string) (*url.URL, url.Values, error)
CheckSignedUrl(rawUrl) ==
  LET fail(e) == [err |-> e, url |-> <<>>, values |-> <<>>]
  IN  With(UrlParse(rawUrl),
           LAMBDA parsedUrl :
             IF parsedUrl.err THEN fail("Parse")
             ELSE
               With(ParseQuery(parsedUrl.url.RawQuery),
                    LAMBDA q :
                      IF q.err THEN fail("ParseQuery")
                      ELSE IF kClient \notin DOMAIN q.values \/ Len(q.values[kClient]) # 1
                        THEN fail("ClientCount")
                      ELSE IF \/ kSignatureParam \notin DOMAIN q.values
                              \/ Len(q.values[kSignatureParam]) # 1
                        THEN fail("SignatureCount")
                      ELSE [err |-> "nil", url |-> <<parsedUrl.url>>, values |-> <<q.values>>]))

\* SignUrl(rawUrl, key string) (string, error)
SignUrl(rawUrl, key) ==
  With(UrlParse(rawUrl),
       LAMBDA u :
         IF u.err THEN [err |-> "Parse", url |-> <<>>]
         ELSE
           With(CreateSignature(u.url, key),
                LAMBDA sig :
                  IF sig.err # "nil" THEN [err |-> sig.err, url |-> <<>>]
                  ELSE [err |-> "nil",
                        url |-> u.url.Scheme \o Str("://") \o u.url.Host \o u.url.Path
                                  \o <<"?">> \o u.url.RawQuery \o kMarker \o sig.signature]))

\* bufio.MaxScanTokenSize, the buffer limit of the bufio.Scanner that
\* bufio.NewScanner returns.
MaxScanTokenSize == 65536

\* The lines of a text: they end at "\n", a trailing "\r" is dropped, and a
\* last line without "\n" counts when it is not empty (bufio.ScanLines).
TextLines(data) ==
  LET dropCR(l) == IF Len(l) > 0 /\ l[Len(l)] = "\r" THEN Take(l, Len(l) - 1) ELSE l
  IN  With(Split(data, "\n"),
           LAMBDA pieces :
             [k \in 1..(IF pieces[Len(pieces)] = <<>> THEN Len(pieces) - 1 ELSE Len(pieces)) |->
                dropCR(pieces[k])])

\* The number of lines s.Scan() delivers: the scanner stops, with the error
\* bufio.ErrTooLong, at the first line that fills its buffer of
\* MaxScanTokenSize bytes before the line ends.
Delivered(data) ==
  With(Split(data, "\n"),
       LAMBDA pieces :
         With({k \in 1..Len(pieces) : Len(pieces[k]) >= MaxScanTokenSize},
              LAMBDA tooLong :
                IF tooLong = {}
                  THEN IF pieces[Len(pieces)] = <<>> THEN Len(pieces) - 1 ELSE Len(pieces)
                  ELSE (CHOOSE k \in tooLong : \A j \in tooLong : k <= j) - 1))

\* The values of s.Text() over the loop "for s.Scan()".  The loop ends when
\* Scan returns false, at the end of the text or at the scanner's error,
\* and s.Err() is not consulted.
ScanLines(data) ==
  With(<<TextLines(data), Delivered(data)>>, LAMBDA r : Take(r[1], r[2]))

\* strings.Fields: the maximal runs of bytes that are not white space.  The
\* fault that C7_SingleSpaceFields is shown to detect.
FieldsWhitespace(line) ==
  LET ws(i) == line[i] \in {" ", "\t", "\n", "\r", "x0B", "x0C"}
  IN  With(SelectSeq([i \in 1..Len(line) |-> i], LAMBDA i : ~ws(i) /\ (i = 1 \/ ws(i - 1))),
           LAMBDA starts :
             [k \in 1..Len(starts) |->
                SubSeq(line, starts[k],
                       (CHOOSE e \in starts[k]..Len(line) :
                          /\ \A i \in starts[k]..e : ~ws(i)
                          /\ (e = Len(line) \/ ws(e + 1))))])

\* fields := strings.Split(line, " ")
Fields(line) == Split(line, " ")

\* repo[fields[0]] = fields[1]
Store(repo, client, key) ==
  [k \in DOMAIN repo \cup {client} |-> IF k = client THEN key ELSE repo[k]]

\* The loop of LoadKeyRepository from line i0 of the scanned lines on, with
\* the repository built from the lines before it.
RECURSIVE LoadLines(_, _, _)
LoadLines(repo0, lines, i0) ==
  With(<<repo0, i0>>,
       LAMBDA r :
         IF r[2] > Len(lines) THEN [err |-> "nil", line |-> <<>>, repo |-> <<r[1]>>]
         ELSE IF Len(lines[r[2]]) = 0 \/ lines[r[2]][1] = "#" THEN LoadLines(r[1], lines, r[2] + 1)
         ELSE
           With(Fields(lines[r[2]]),
                LAMBDA fields :
                  IF Len(fields) # 2 THEN [err |-> "Fields", line |-> lines[r[2]], repo |-> <<>>]
                  ELSE LoadLines(Store(r[1], fields[1], fields[2]), lines, r[2] + 1)))

\* LoadKeyRepository(reader io.Reader) (KeyRepository, error)
LoadKeyRepository(source) ==
  With(ScanLines(source), LAMBDA lines : LoadLines(<<>>, lines, 1))

\* A map lookup that also removes the entry it finds (a repository of
\* one-time keys): the fault that C9_Stateless is shown to detect.
LookupAndEvict(c, client) ==
  IF client \in DOMAIN c
    THEN [found |-> TRUE, key |-> c[client], repo |-> [k \in DOMAIN c \ {client} |-> c[k]]]
    ELSE [found |-> FALSE, key |-> <<>>, repo |-> c]

\* key, ok := c[client]: the key found, and the map after the statement.
Lookup(c, client) ==
  IF client \in DOMAIN c
    THEN [found |-> TRUE, key |-> c[client], repo |-> c]
    ELSE [found |-> FALSE, key |-> <<>>, repo |-> c]

\* A comparison that accepts every signature: the fault that
\* C4_OnlyAuthentic is shown to detect.
SameSignatureAlways(attachedSignature, signature) == TRUE

\* A comparison that ignores the case of letters: the fault that
\* C2_TamperDetected is shown to detect.
SameSignatureIgnoreCase(attachedSignature, signature) ==
  ToLower(attachedSignature) = ToLower(signature)

\* attachedSignature != signature, negated
SameSignature(attachedSignature, signature) == attachedSignature = signature

\* The part of Authenticate after the client was found: the last
\* "&signature=" is located, the signature of the URL before it is
\* recomputed with the stored key and compared with the attached one.
Verify(checked, key, rawUrl) ==
  LET fail(e) == [err |-> e, url |-> <<>>, values |-> <<>>]
      values == checked.values[1]
  IN  IF kSignatureParam \notin DOMAIN values \/ Len(values[kSignatureParam]) = 0
        THEN fail("panic")
      ELSE
        With(LastIndex(rawUrl, kMarker),
             LAMBDA lastQuery :
               IF lastQuery = -1 THEN fail("NoMarker")
               ELSE
                 With(UrlParse(Take(rawUrl, lastQuery)),
                      LAMBDA urlWithoutSignature :
                        IF urlWithoutSignature.err THEN fail("Parse")
                        ELSE
                          With(CreateSignature(urlWithoutSignature.url, key),
                               LAMBDA computed :
                                 IF computed.err # "nil" THEN fail("CreateSignature")
                                 ELSE IF ~SameSignature(values[kSignatureParam][1],
                                                        computed.signature)
                                   THEN fail("Mismatch")
                                 ELSE [err |-> "nil", url |-> checked.url,
                                       values |-> checked.values])))

\* The client value that Authenticate looks up: values["client"][0], which
\* is out of range (<<>> here) when the mapping holds no client value.
ClientOf(checked) ==
  IF kClient \in DOMAIN checked.values[1] /\ Len(checked.values[1][kClient]) > 0
    THEN <<checked.values[1][kClient][1]>>
    ELSE <<>>

\* Authenticate with the search for "&signature=" made before the client is
\* looked up: the fault that C10_CheckOrder is shown to detect.
AuthenticateMarkerFirst(c, rawUrl) ==
  LET fail(e) == [err |-> e, url |-> <<>>, values |-> <<>>]
  IN  With(CheckSignedUrl(rawUrl),
           LAMBDA checked :
             IF checked.err # "nil" THEN fail("CheckSignedUrl")
             ELSE IF ClientOf(checked) = <<>> THEN fail("panic")
             ELSE IF LastIndex(rawUrl, kMarker) = -1 THEN fail("NoMarker")
             ELSE With(Lookup(c, ClientOf(checked)[1]),
                       LAMBDA l : IF ~l.found THEN fail("UnknownClient")
                                  ELSE Verify(checked, l.key, rawUrl)))

\* (c KeyRepository) Authenticate(rawUrl string) (*url.URL, url.Values, error)
\* An index out of range is the error "panic".
Authenticate(c, rawUrl) ==
  LET fail(e) == [err |-> e, url |-> <<>>, values |-> <<>>]
  IN  With(CheckSignedUrl(rawUrl),
           LAMBDA checked :
             IF checked.err # "nil" THEN fail("CheckSignedUrl")
             ELSE IF ClientOf(checked) = <<>> THEN fail("panic")
             ELSE With(Lookup(c, ClientOf(checked)[1]),
                       LAMBDA l : IF ~l.found THEN fail("UnknownClient")
                                  ELSE Verify(checked, l.key, rawUrl)))

(***************************************************************************)
(* The state machine.  A server loads its key repository once (phase       *)
(* "boot"), then requests are signed by clients, travel as raw URLs        *)
(* (wire), possibly changed on the way, and are authenticated.             *)
(***************************************************************************)
VARIABLES
  source,    \* the text LoadKeyRepository reads
  loadRes,   \* the LoadKeyRepository call on source, if made: [called, res]
  repo,      \* the KeyRepository the server authenticates with
  phase,     \* "boot", "idle", "signed", "changed", "foreign", "done"
  wire,      \* the raw URL of the request in flight
  origin,    \* how wire was made: the SignUrl call, and the change made to its result
  last,      \* the last call of CreateSignature, SignUrl, CheckSignedUrl, Authenticate
  accepted,  \* the raw URLs Authenticate has accepted so far
  calls      \* the Authenticate calls in progress, one per server goroutine

vars == <<source, loadRes, repo, phase, wire, origin, last, accepted, calls>>

\* kPrivateKey of auth_test.go, a second key, and the undecodable key of
\* TestAuthenticate.
K1 == Str("vNIXE0xscrmjlyV-12Nj_BvUPaw=")

K2 == Str("a2V5")

KBad == Str("invalidBased64Key")

Keys == {K1, K2, KBad}

NoLoad == [called |-> FALSE, res |-> [err |-> "nil", line |-> <<>>, repo |-> <<>>]]

NoCall == [op |-> "none", rawUrl |-> <<>>, key |-> <<>>, res |-> <<>>]

NoOrigin ==
  [rawUrl |-> <<>>, key |-> <<>>, change |-> "none", base |-> <<>>, at |-> 0, new |-> ""]

Procs == {"g1", "g2"}

IdleCall == [pc |-> "idle", rawUrl |-> <<>>, checked |-> <<>>, key |-> <<>>, res |-> <<>>]

Init ==
  /\ source = <<>>
  /\ loadRes = NoLoad
  /\ repo = <<>>
  /\ phase = "boot"
  /\ wire = <<>>
  /\ origin = NoOrigin
  /\ last = NoCall
  /\ accepted = {}
  /\ calls = [p \in Procs |-> IdleCall]

\* The repository files of the main specification.
MainSources ==
  { Str("a vNIXE0xscrmjlyV-12Nj_BvUPaw=\nb something"),
    Str("a a2V5\n"),
    Str("# no clients\n"),
    Str("clientID vNIXE0xscrmjlyV-12Nj_BvUPaw=\nyiw something"),
    Str("a vNIXE0xscrmjlyV-12Nj_BvUPaw= x\n") }

\* The operator provides the repository file.
WriteSource(src) ==
  /\ phase = "boot"
  /\ source' = src
  /\ loadRes' = NoLoad
  /\ UNCHANGED <<repo, phase, wire, origin, last, accepted, calls>>

\* The server calls LoadKeyRepository and keeps the repository it returns.
DoLoadKeyRepository ==
  /\ phase = "boot"
  /\ \E res \in {LoadKeyRepository(source)} :
       /\ loadRes' = [called |-> TRUE, res |-> res]
       /\ IF res.err = "nil"
            THEN repo' = res.repo[1] /\ phase' = "idle"
            ELSE UNCHANGED <<repo, phase>>
  /\ UNCHANGED <<source, wire, origin, last, accepted, calls>>

\* The URLs clients ask to have signed.
RawUrls ==
  { Str("http://h/p?client=a"),
    Str("http://h/p?x=1&client=a"),
    Str("http://h/p?client=%61&x=+"),
    Str("http://h/p?client=b"),
    Str("http://h/p?client=c"),
    Str("http://h?client=a#f"),
    Str("http://h/p?client=a&client=b"),
    Str("http://h/p?x=1"),
    Str("http://h/p?client=a&signature=zz"),
    Str("http://h/p?signature=zz"),
    Str("http://h/p?x=%zz"),
    Str("http://h/p?client=a&x=%zz&signature=zz"),
    Str("/p?client=a"),
    Str("http://h/a%3Fb?client=a"),
    Str("http://h h/p?client=a"),
    Str("http://maps.googleapis.com/maps/api/geocode/json?address=New+York&sensor=false&client=clientID") }

\* A direct call of CreateSignature on a parsed URL (TestCreateSignature).
DoCreateSignature(rawUrl, key) ==
  /\ phase = "idle"
  /\ \E u \in {UrlParse(rawUrl)} :
       /\ ~u.err
       /\ last' = [op |-> "CreateSignature", rawUrl |-> rawUrl, key |-> key,
                   res |-> CreateSignature(u.url, key)]
  /\ phase' = "done"
  /\ UNCHANGED <<source, loadRes, repo, wire, origin, accepted, calls>>

\* A client signs a URL; the signed URL becomes the request in flight.
DoSignUrl(rawUrl, key) ==
  /\ phase = "idle"
  /\ \E res \in {SignUrl(rawUrl, key)} :
       /\ last' = [op |-> "SignUrl", rawUrl |-> rawUrl, key |-> key, res |-> res]
       /\ IF res.err = "nil"
            THEN /\ wire' = res.url
                 /\ origin' = [NoOrigin EXCEPT !.rawUrl = rawUrl, !.key = key]
                 /\ phase' = "signed"
            ELSE phase' = "done" /\ UNCHANGED <<wire, origin>>
  /\ UNCHANGED <<source, loadRes, repo, accepted, calls>>

\* What a sender may append to a signed URL.
Suffixes == {Str("&x=1"), Str("#f"), Str("&client=a"), Str("&signature=zz")}

Extend(sfx) ==
  /\ phase = "signed"
  /\ origin.change = "none"
  /\ wire' = wire \o sfx
  /\ origin' = [origin EXCEPT !.change = "extended", !.base = wire]
  /\ phase' = "changed"
  /\ UNCHANGED <<source, loadRes, repo, last, accepted, calls>>

\* Requests that no SignUrl call made.
ForeignUrls ==
  { Str("http://h/p?signature=zz&client=a"),
    Str("http://h/p?signature=VcsBn43zOQdFG_FvfUMp1zVr4T8=&client=a"),
    Str("http://h/p?signature=zz&client=c"),
    Str("http://h/p?client=a"),
    Str("http://h/p?x=1&signature=zz"),
    Str("http://h/p?client=a&signature=zz"),
    Str("http://h/p?client=b&signature=zz"),
    Str("http://h/p?client=c&signature=zz"),
    Str("http://h/p?signature=zz&client=a#&signature=zz"),
    Str("http://h/p?client=a&signature=%zz"),
    Str("http://h h/p?client=a&signature=zz"),
    Str("http://company.com?signature=xxx"),
    Str("http://company.com?client=xxx") }

Present(rawUrl) ==
  /\ phase = "idle"
  /\ wire' = rawUrl
  /\ origin' = NoOrigin
  /\ phase' = "foreign"
  /\ UNCHANGED <<source, loadRes, repo, last, accepted, calls>>

\* The server validates the request in flight (TestCheckSignedUrl).
DoCheckSignedUrl ==
  /\ phase \in {"signed", "changed", "foreign"}
  /\ last' = [op |-> "CheckSignedUrl", rawUrl |-> wire, key |-> <<>>,
              res |-> CheckSignedUrl(wire)]
  /\ phase' = "done"
  /\ UNCHANGED <<source, loadRes, repo, wire, origin, accepted, calls>>

\* The server authenticates the request in flight.
DoAuthenticate ==
  /\ phase \in {"signed", "changed", "foreign"}
  /\ \E res \in {Authenticate(repo, wire)} :
       /\ last' = [op |-> "Authenticate", rawUrl |-> wire, key |-> <<>>, res |-> res]
       /\ accepted' = IF res.err = "nil" THEN accepted \cup {wire} ELSE accepted
  /\ phase' = "done"
  /\ UNCHANGED <<source, loadRes, repo, wire, origin, calls>>

\* The call has returned and the request is over.
Finish ==
  /\ phase = "done"
  /\ phase' = "idle"
  /\ wire' = <<>>
  /\ origin' = NoOrigin
  /\ last' = NoCall
  /\ accepted' = {}
  /\ UNCHANGED <<source, loadRes, repo, calls>>

Next ==
  \/ \E src \in MainSources : WriteSource(src)
  \/ DoLoadKeyRepository
  \/ \E u \in RawUrls, k \in Keys : DoCreateSignature(u, k)
  \/ \E u \in RawUrls, k \in Keys : DoSignUrl(u, k)
  \/ \E sfx \in Suffixes : Extend(sfx)
  \/ \E u \in ForeignUrls : Present(u)
  \/ DoCheckSignedUrl
  \/ DoAuthenticate
  \/ Finish

Spec == Init /\ [][Next]_vars

(***************************************************************************)
(* Properties of the main specification.  A finished call is read from     *)
(* last: its operation, its arguments and what it returned.                *)
(***************************************************************************)
\* The parsed query of a raw URL that url.Parse accepts.
QueryOf(rawUrl) == ParseQuery(UrlParse(rawUrl).url.RawQuery)

\* The text of rawUrl after its last "&signature=".
AfterMarker(rawUrl) == Drop(rawUrl, LastIndex(rawUrl, kMarker) + Len(kMarker))

\* C1: sign-then-authenticate round trip.  When SignUrl(u, k) has succeeded
\* and the repository maps the client value of u to k, Authenticate of the
\* URL that SignUrl returned succeeds, and the mapping it returns has that
\* client identifier as its client value.
C1_RoundTrip ==
  (/\ last.op = "Authenticate"
   /\ origin.rawUrl # <<>>
   /\ origin.change = "none"
   /\ last.rawUrl = SignUrl(origin.rawUrl, origin.key).url)
  => LET client == QueryOf(origin.rawUrl).values[kClient][1]
     IN  (client \in DOMAIN repo /\ repo[client] = origin.key)
         => /\ last.res.err = "nil"
            /\ last.res.values[1][kClient] = <<client>>

\* C3: the signature is the final parameter.  Every URL that Authenticate
\* accepts has nothing after its signature value: no further parameter
\* follows the last "&signature=", and a signed URL to which a parameter was
\* appended is rejected.
C3_SignatureLast ==
  (last.op = "Authenticate" /\ last.res.err = "nil")
  => ~Contains(AfterMarker(last.rawUrl), <<"&">>)

\* The signature Authenticate must find attached: the one recomputed with
\* the key stored for the client of rawUrl over rawUrl cut at its last
\* "&signature=".
Recomputed(c, rawUrl) ==
  CreateSignature(UrlParse(Take(rawUrl, LastIndex(rawUrl, kMarker))).url,
                  c[QueryOf(rawUrl).values[kClient][1]])

\* C4: Authenticate accepts only authentic requests.  When Authenticate
\* returns without error, the client value of the URL is a key of the
\* repository, the key stored for it decodes as URL-safe base64, and the
\* attached signature equals the signature recomputed with that key over the
\* URL cut at the last "&signature="; it then returns the parsed URL and the
\* parsed mapping.  Otherwise it returns an error, no URL and no mapping,
\* and in no case does it fail with an index out of range.
C4_OnlyAuthentic ==
  last.op = "Authenticate"
  => /\ last.res.err # "panic"
     /\ last.res.err # "nil" => last.res.url = <<>> /\ last.res.values = <<>>
     /\ last.res.err = "nil"
        => /\ ~UrlParse(last.rawUrl).err
           /\ ~QueryOf(last.rawUrl).err
           /\ kClient \in DOMAIN QueryOf(last.rawUrl).values
           /\ QueryOf(last.rawUrl).values[kClient][1] \in DOMAIN repo
           /\ ~DecodeUrlSafeBase64(repo[QueryOf(last.rawUrl).values[kClient][1]]).err
           /\ LastIndex(last.rawUrl, kMarker) # -1
           /\ Recomputed(repo, last.rawUrl).err = "nil"
           /\ QueryOf(last.rawUrl).values[kSignatureParam]
                = <<Recomputed(repo, last.rawUrl).signature>>
           /\ last.res.url = <<UrlParse(last.rawUrl).url>>
           /\ last.res.values = <<QueryOf(last.rawUrl).values>>

\* A request signed with the key of its client was accepted, and so was
\* no request of a client whose stored key does not decode.
C4_Witness ==
  /\ last.op = "Authenticate"
  /\ last.res.err = "nil"
  /\ origin.change = "none"
  /\ origin.key = K1
  /\ last.res.values[1][kClient] = <<Str("a")>>
  /\ Str("b") \in DOMAIN repo
  /\ DecodeUrlSafeBase64(repo[Str("b")]).err

\* C5: CreateSignature rejects unsignable URLs.  Whatever the key, a URL
\* whose query has no client parameter, and a URL whose query holds a
\* signature parameter, get an error and the empty signature; in a query that
\* parses, the missing client is reported before the signature that is
\* present, and both before the key is decoded.
C5_RejectsUnsignable ==
  last.op = "CreateSignature"
  => LET q == QueryOf(last.rawUrl)
         noClient == kClient \notin DOMAIN q.values
         hasSignature == kSignatureParam \in DOMAIN q.values
     IN  /\ (noClient \/ hasSignature)
            => last.res.err # "nil" /\ last.res.signature = <<>>
         /\ (~q.err /\ noClient) => last.res.err = "MissingClient"
         /\ (~q.err /\ ~noClient /\ hasSignature) => last.res.err = "UnexpectedSignature"
         /\ (~q.err /\ ~noClient /\ ~hasSignature)
            => last.res.err = IF DecodeUrlSafeBase64(last.key).err
                                THEN "DecodeUrlSafeBase64" ELSE "nil"

\* CreateSignature was called with the undecodable key on a URL that has a
\* signature parameter and no client parameter, and reported the missing
\* client.
C5_Witness ==
  /\ last.op = "CreateSignature"
  /\ last.key = KBad
  /\ last.rawUrl = Str("http://h/p?signature=zz")
  /\ last.res.err = "MissingClient"

\* C6: pre-signing invariant.  CreateSignature and SignUrl succeed only on
\* URLs whose parsed query holds exactly one client value and no signature
\* parameter, and every URL SignUrl returns passes CheckSignedUrl.
C6_PreSigning ==
  (last.op \in {"CreateSignature", "SignUrl"} /\ last.res.err = "nil")
  => /\ kClient \in DOMAIN QueryOf(last.rawUrl).values
     /\ Len(QueryOf(last.rawUrl).values[kClient]) = 1
     /\ kSignatureParam \notin DOMAIN QueryOf(last.rawUrl).values
     /\ last.op = "SignUrl" => CheckSignedUrl(last.res.url).err = "nil"

\* The error of the first step of Authenticate that fails, the steps taken
\* in the order: validation, client lookup, search for the last
\* "&signature=", recomputation, comparison.
FirstFailure(c, rawUrl) ==
  IF CheckSignedUrl(rawUrl).err # "nil" THEN "CheckSignedUrl"
  ELSE IF QueryOf(rawUrl).values[kClient][1] \notin DOMAIN c THEN "UnknownClient"
  ELSE IF LastIndex(rawUrl, kMarker) = -1 THEN "NoMarker"
  ELSE IF UrlParse(Take(rawUrl, LastIndex(rawUrl, kMarker))).err THEN "Parse"
  ELSE IF Recomputed(c, rawUrl).err # "nil" THEN "CreateSignature"
  ELSE IF QueryOf(rawUrl).values[kSignatureParam][1] # Recomputed(c, rawUrl).signature
    THEN "Mismatch"
  ELSE "nil"

\* C10: order of the checks of Authenticate.  Authenticate reports the
\* first failing step in the order validation, client lookup, search for
\* the last "&signature=", recomputation, comparison; so an unknown client is
\* reported before a missing marker, and a validated URL of a known client
\* without the marker is rejected for the marker whatever its signature.
C10_CheckOrder ==
  last.op = "Authenticate"
  => /\ last.res.err = FirstFailure(repo, last.rawUrl)
     /\ (CheckSignedUrl(last.rawUrl).err = "nil" /\ LastIndex(last.rawUrl, kMarker) = -1)
        => last.res.err = IF QueryOf(last.rawUrl).values[kClient][1] \in DOMAIN repo
                            THEN "NoMarker" ELSE "UnknownClient"

\* A validated URL without the marker and with an unknown client was
\* rejected for its client.
C10_Witness ==
  /\ last.op = "Authenticate"
  /\ last.rawUrl = Str("http://h/p?signature=zz&client=c")
  /\ Str("a") \in DOMAIN repo
  /\ last.res.err = "UnknownClient"

(***************************************************************************)
(* The specification of loading: the repository file is written line by    *)
(* line, and loaded.                                                       *)
(***************************************************************************)
\* The most lines a repository file has here.
MaxLines == 2

\* A comment line that fills the buffer of the scanner.
LongComment == [i \in 1..MaxScanTokenSize |-> "#"]

\* The lines a repository file is made of, each with its line end; the last
\* one has none and ends the file.
LoadPieces ==
  { Str("a k\n"), Str("a j\n"), Str("b k\r\n"), Str("# c\n"), Str("\n"),
    Str("a  k\n"), Str("a\tk\n"), Str("a \n"), Str("a k x\n"),
    LongComment \o Str("\n"), Str("b j") }

AppendLine(piece) ==
  /\ phase = "boot"
  /\ IF source = <<>> THEN TRUE ELSE source[Len(source)] = "\n"
  /\ Cardinality({i \in 1..Len(source) : source[i] = "\n"}) < MaxLines
  /\ source' = source \o piece
  /\ loadRes' = NoLoad
  /\ UNCHANGED <<repo, phase, wire, origin, last, accepted, calls>>

NextLoad ==
  \/ \E piece \in LoadPieces : AppendLine(piece)
  \/ DoLoadKeyRepository

SpecLoad == Init /\ [][NextLoad]_vars

\* A line LoadKeyRepository skips: an empty line or a line beginning with "#".
Skipped(line) == Len(line) = 0 \/ line[1] = "#"

SpaceCount(line) == Cardinality({i \in 1..Len(line) : line[i] = " "})

Least(S) == CHOOSE k \in S : \A j \in S : k <= j

Blank(line) == \A i \in 1..Len(line) : line[i] \in {" ", "\t", "\r"}

C8_LastWriteWins ==
  loadRes.called
  => With(TextLines(source),
          LAMBDA lines :
            With({i \in 1..Len(lines) : ~Skipped(lines[i])},
                 LAMBDA kept :
                   (\A i \in kept : SpaceCount(lines[i]) = 1)
                   => /\ loadRes.res.err = "nil"
                      /\ loadRes.res.repo # <<>>
                      /\ DOMAIN loadRes.res.repo[1] = {Cut(lines[i], <<" ">>).before : i \in kept}
                      /\ \A i \in kept :
                           (\A j \in kept :
                              j > i => Cut(lines[j], <<" ">>).before # Cut(lines[i], <<" ">>).before)
                           => loadRes.res.repo[1][Cut(lines[i], <<" ">>).before]
                                = Cut(lines[i], <<" ">>).after))

(***************************************************************************)
(* The specification of tampering: a server that has loaded its            *)
(* repository; a client signs a URL, the sender may write a character of   *)
(* the signature value as a percent-escape, one character of the signature *)
(* value is replaced on the way, and the server authenticates the result.  *)
(***************************************************************************)
ServingSource == Str("a vNIXE0xscrmjlyV-12Nj_BvUPaw=\nb a2V5\n")

ServingRepo == LoadKeyRepository(ServingSource).repo[1]

InitServing ==
  /\ source = ServingSource
  /\ loadRes = [called |-> TRUE, res |-> LoadKeyRepository(ServingSource)]
  /\ repo = ServingRepo
  /\ phase = "idle"
  /\ wire = <<>>
  /\ origin = NoOrigin
  /\ last = NoCall
  /\ accepted = {}
  /\ calls = [p \in Procs |-> IdleCall]

\* How many of the last characters of a signed URL the sender may escape.
EscapeSpan == 2

\* "%XX" for the byte c, with the hex digits in upper or in lower case.
PercentEncode(c, upper) ==
  LET digits == IF upper THEN Str("0123456789ABCDEF") ELSE Str("0123456789abcdef")
  IN  <<"%", digits[(Ord(c) \div 16) + 1], digits[(Ord(c) % 16) + 1]>>

\* The sender writes the n-th character from the end as a percent-escape.
Escape(n, upper) ==
  /\ phase = "signed"
  /\ origin.change = "none"
  /\ n <= Len(AfterMarker(wire))
  /\ wire' = Take(wire, Len(wire) - n) \o PercentEncode(wire[Len(wire) - n + 1], upper)
               \o Drop(wire, Len(wire) - n + 1)
  /\ origin' = [origin EXCEPT !.change = "escaped"]
  /\ UNCHANGED <<source, loadRes, repo, phase, last, accepted, calls>>

\* The characters put in the place of a character of the signature value.
TamperChars == {"A", "d", "D", "3", "&", "#", "%", "+", "=", "-"}

\* Character i of the request, a character of its signature value, is
\* replaced by c.
Tamper(i, c) ==
  /\ phase = "signed"
  /\ i > LastIndex(wire, kMarker) + Len(kMarker)
  /\ wire[i] # c
  /\ wire' = [wire EXCEPT ![i] = c]
  /\ origin' = [origin EXCEPT !.change = "tampered", !.base = wire, !.at = i, !.new = c]
  /\ phase' = "changed"
  /\ UNCHANGED <<source, loadRes, repo, last, accepted, calls>>

NextTamper ==
  \/ \E k \in {K1, K2} : DoSignUrl(Str("http://h/p?client=a"), k)
  \/ \E n \in 1..EscapeSpan, upper \in BOOLEAN : Escape(n, upper)
  \/ \E i \in 1..Len(wire), c \in TamperChars : Tamper(i, c)
  \/ DoAuthenticate
  \/ Finish

SpecTamper == InitServing /\ [][NextTamper]_vars

\* Character at of base is a hex digit of a percent-escape, and new is
\* the same digit in the other letter case.
HexCaseFlip(base, at, new) ==
  /\ new # base[at]
  /\ IsHex(new)
  /\ ToLower(<<new>>) = ToLower(<<base[at]>>)
  /\ (at > 1 /\ base[at - 1] = "%") \/ (at > 2 /\ base[at - 2] = "%")

\* The request authenticated last is a URL that Authenticate accepts with
\* one character of its signature value replaced.
TamperedAccepted ==
  /\ last.op = "Authenticate"
  /\ origin.change = "tampered"
  /\ last.rawUrl = [origin.base EXCEPT ![origin.at] = origin.new]
  /\ Authenticate(repo, origin.base).err = "nil"

\* C2, as amended: when one character of the signature value of a URL that
\* Authenticate accepts is replaced by a different character, Authenticate
\* rejects the result under the same repository, unless the character is a
\* hex digit of a percent-escape and the replacement is the same digit in
\* the other letter case.
C2_TamperDetected ==
  (TamperedAccepted /\ last.res.err = "nil")
  => HexCaseFlip(origin.base, origin.at, origin.new)

\* A character of the signature value of an accepted URL was replaced, and
\* the result was rejected because the signatures differ.
C2_Witness ==
  /\ TamperedAccepted
  /\ ~Contains(origin.base, <<"%">>)
  /\ origin.new = "D"
  /\ last.res.err = "Mismatch"

\* C2, as stated: replacing any single character of the signature value of
\* an accepted URL by a different character gives a URL that Authenticate
\* rejects.
C2_AnyChangeRejected == TamperedAccepted => last.res.err # "nil"

(***************************************************************************)
(* The specification of concurrent serving: the goroutines of a server     *)
(* that has loaded its repository each run Authenticate statement by       *)
(* statement, on one shared repository.                                    *)
(***************************************************************************)
\* The requests the goroutines are given.
ConcUrls ==
  { Str("http://h/p?client=a&signature=VcsBn43zOQdFG_FvfUMp1zVr4T8="),
    Str("http://h/p?client=a&signature=zz"),
    Str("http://h/p?client=c&signature=zz"),
    Str("http://h/p?signature=zz&client=a"),
    Str("http://h/p?client=a") }

Failed(e) == [err |-> e, url |-> <<>>, values |-> <<>>]

\* Goroutine p is handed a request and calls Authenticate.
Begin(p, rawUrl) ==
  /\ calls[p].pc = "idle"
  /\ calls' = [calls EXCEPT ![p] = [IdleCall EXCEPT !.pc = "check", !.rawUrl = rawUrl]]
  /\ UNCHANGED <<source, loadRes, repo, phase, wire, origin, last, accepted>>

\* parsedUrl, values, e := CheckSignedUrl(rawUrl)
CheckStep(p) ==
  /\ calls[p].pc = "check"
  /\ \E checked \in {CheckSignedUrl(calls[p].rawUrl)} :
       calls' = [calls EXCEPT ![p] =
                   IF checked.err # "nil"
                     THEN [@ EXCEPT !.pc = "done", !.res = Failed("CheckSignedUrl")]
                     ELSE [@ EXCEPT !.pc = "lookup", !.checked = checked]]
  /\ UNCHANGED <<source, loadRes, repo, phase, wire, origin, last, accepted>>

\* key, ok := c[values["client"][0]], on the shared repository
LookupStep(p) ==
  /\ calls[p].pc = "lookup"
  /\ IF ClientOf(calls[p].checked) = <<>>
       THEN /\ calls' = [calls EXCEPT ![p] = [@ EXCEPT !.pc = "done", !.res = Failed("panic")]]
            /\ UNCHANGED repo
       ELSE \E l \in {Lookup(repo, ClientOf(calls[p].checked)[1])} :
              /\ repo' = l.repo
              /\ calls' = [calls EXCEPT ![p] =
                             IF l.found
                               THEN [@ EXCEPT !.pc = "verify", !.key = l.key]
                               ELSE [@ EXCEPT !.pc = "done", !.res = Failed("UnknownClient")]]
  /\ UNCHANGED <<source, loadRes, phase, wire, origin, last, accepted>>

\* The rest of Authenticate, which reads only its own local variables.
VerifyStep(p) ==
  /\ calls[p].pc = "verify"
  /\ calls' = [calls EXCEPT ![p] =
                 [@ EXCEPT !.pc = "done",
                           !.res = Verify(calls[p].checked, calls[p].key, calls[p].rawUrl)]]
  /\ UNCHANGED <<source, loadRes, repo, phase, wire, origin, last, accepted>>

\* Authenticate returns to the caller of goroutine p.
Return(p) ==
  /\ calls[p].pc = "done"
  /\ last' = [op |-> "Authenticate", rawUrl |-> calls[p].rawUrl, key |-> <<>>,
              res |-> calls[p].res]
  /\ accepted' = IF calls[p].res.err = "nil" THEN accepted \cup {calls[p].rawUrl}
                 ELSE accepted
  /\ calls' = [calls EXCEPT ![p] = IdleCall]
  /\ UNCHANGED <<source, loadRes, repo, phase, wire, origin>>

NextConc ==
  \/ \E p \in Procs, u \in ConcUrls : Begin(p, u)
  \/ \E p \in Procs : CheckStep(p)
  \/ \E p \in Procs : LookupStep(p)
  \/ \E p \in Procs : VerifyStep(p)
  \/ \E p \in Procs : Return(p)

SpecConc == InitServing /\ [][NextConc]_vars

\* C9: statelessness of verification.  Authenticate never modifies the key
\* repository; whatever the interleaving of the calls of the goroutines,
\* each call ends with the result Authenticate gives for its raw URL and
\* the repository alone; and a URL that was accepted once is accepted again
\* by every later call.
C9_Stateless ==
  /\ repo = ServingRepo
  /\ \A p \in Procs :
       calls[p].pc = "done"
       => /\ calls[p].res = Authenticate(ServingRepo, calls[p].rawUrl)
          /\ calls[p].rawUrl \in accepted => calls[p].res.err = "nil"

\* A URL that was accepted before was accepted again by one goroutine
\* while the other goroutine was in the middle of its own call.
C9_Witness ==
  \E p \in Procs, o \in Procs :
    /\ p # o
    /\ calls[p].pc = "done"
    /\ calls[p].rawUrl \in accepted
    /\ calls[p].res.err = "nil"
    /\ calls[o].pc = "verify"

=============================================================================
